---------------------------- MODULE Spec2Model ----------------------------
(***************************************************************************)
(* Model of tx-store-app/index.py: a Flask application with two handlers   *)
(* over the MySQL table `transactions`.                                    *)
(*                                                                         *)
(*   get_records  GET  /records   SELECT * ... ORDER BY datetime DESC      *)
(*   add_record   POST /records   validate, INSERT, commit, answer the id  *)
(*                                                                         *)
(* The store is the external collaborator: every call into it (opening the *)
(* connection, execute, commit, closing the cursor) either succeeds or     *)
(* raises.  Amounts are held in hundredths (4.50 is 450).  A datetime is   *)
(* the pair [date, time] standing for the string date + ' ' + time.        *)
(***************************************************************************)
EXTENDS Integers, Sequences, FiniteSets, TLC

\* Number of requests a behaviour handles.
MaxReqs == 2
\* Number of distinct readings of the time-of-day clock (it wraps around).
ClockTicks == 2

Reqs == 1..MaxReqs

VARIABLES
    name,       \* __name__ of the module: "__main__" or the import name
    phase,      \* position in the module's top-level code / server life
    routes,     \* methods registered for the URL /records
    clock,      \* time of day, as `date +%H:%M:%S` reads it
    table,      \* committed rows of `transactions`
    nextId,     \* the table's AUTO_INCREMENT counter
    pc,         \* per request: position in its handler
    method,     \* per request: HTTP method
    body,       \* per request: the request body
    conn,       \* per request: its connection (mysql.connection of its context)
    pending,    \* per request: rows written in its open transaction
    lastrowid,  \* per request: cursor.lastrowid
    resp        \* per request: the response

vars == <<name, phase, routes, clock, table, nextId, pc, method, body, conn,
          pending, lastrowid, resp>>

reqVars == <<pc, method, body, conn, pending, lastrowid, resp>>
bootVars == <<name, phase, routes>>

---------------------------------------------------------------------------
(* JSON values and request bodies *)

JStr(s)  == [t |-> "str",  s |-> s,  n |-> 0]
JNum(n)  == [t |-> "num",  s |-> "", n |-> n]
JBool(b) == [t |-> "bool", s |-> "", n |-> IF b THEN 1 ELSE 0]
JList(k) == [t |-> "list", s |-> "", n |-> k]
JNull    == [t |-> "null", s |-> "", n |-> 0]
\* a key the object does not hold
Absent   == [t |-> "absent", s |-> "", n |-> 0]

Keys == {"description", "amount", "category", "date", "notes",
         "transactionHash", "status"}
Required == {"description", "amount", "category", "date", "transactionHash"}

BasePayload ==
    [k \in Keys |->
        CASE k = "description"     -> JStr("Coffee")
          [] k = "amount"          -> JStr("4.50")
          [] k = "category"        -> JStr("Food")
          [] k = "date"            -> JStr("2024-01-01")
          [] k = "transactionHash" -> JStr("0xabc")
          [] OTHER                 -> Absent]

FullPayload ==
    [k \in Keys |->
        CASE k = "description"     -> JStr("Rent")
          [] k = "amount"          -> JNum(1250)
          [] k = "category"        -> JStr("Home")
          [] k = "date"            -> JStr("2024-01-02")
          [] k = "transactionHash" -> JStr("0xdef")
          [] k = "notes"           -> JStr("paid")
          [] OTHER                 -> JStr("Edited")]

With(p, k, v) == [p EXCEPT ![k] = v]

\* the object {}
EmptyPayload == [k \in Keys |-> Absent]

Payloads ==
    {BasePayload, FullPayload}
    \cup {With(BasePayload, "description", Absent),
          With(BasePayload, "amount", JNull),
          With(BasePayload, "category", JStr("")),
          With(BasePayload, "date", Absent),
          With(BasePayload, "transactionHash", Absent)}
    \cup {With(BasePayload, "amount", v) :
            v \in {JStr("abc"), JNum(0), JBool(TRUE), JList(1), JList(0)}}
    \cup {With(BasePayload, "date", JNum(20240101)), EmptyPayload}

ObjectBody(p) == [kind |-> "object", data |-> p]
\* a JSON array, and a body that is no JSON at all
OtherBodies == {[kind |-> "array", data |-> EmptyPayload],
                [kind |-> "invalid", data |-> EmptyPayload]}
Bodies == {ObjectBody(p) : p \in Payloads} \cup OtherBodies
NoBody == [kind |-> "none", data |-> EmptyPayload]

---------------------------------------------------------------------------
(* Python's semantics of the expressions add_record evaluates *)

\* data.get(key, default); data.get(key) is data.get(key, None)
DictGet(data, key, default) ==
    IF data[key].t = "absent" THEN default ELSE data[key]

\* bool(v)
Truthy(v) ==
    CASE v.t = "null" -> FALSE
      [] v.t = "str"  -> v.s # ""
      [] v.t = "num"  -> v.n # 0
      [] v.t = "bool" -> v.n = 1
      [] v.t = "list" -> v.n > 0
      [] OTHER        -> FALSE

\* float(s) of a str, in hundredths
StrToFloat(s) ==
    CASE s = "4.50" -> [kind |-> "ok", val |-> 450]
      [] OTHER      -> [kind |-> "ValueError", val |-> 0]

\* float(v)
PyFloat(v) ==
    CASE v.t = "str"  -> StrToFloat(v.s)
      [] v.t = "num"  -> [kind |-> "ok", val |-> v.n]
      [] v.t = "bool" -> [kind |-> "ok", val |-> 100 * v.n]
      [] OTHER        -> [kind |-> "TypeError", val |-> 0]

\* the list handed to all() on line 49
RequiredValues(data) ==
    <<DictGet(data, "description", JNull), DictGet(data, "amount", JNull),
      DictGet(data, "category", JNull), DictGet(data, "date", JNull),
      DictGet(data, "transactionHash", JNull)>>

\* all() over a list that leaves the last value (blockchain_hash) out
PyAllButLast(values) == \A i \in 1..(Len(values) - 1) : Truthy(values[i])

\* all(values)
PyAll(values) == \A i \in 1..Len(values) : Truthy(values[i])

\* transaction_date + ' ' + <time of day>: defined on a str only
CanConcat(v) == v.t = "str"
DateTime(v, now) == [date |-> v.s, time |-> now]

\* the parameter tuple with status read as data.get('status')
NewRowNoStatusDefault(data, id, now) ==
    [id          |-> id,
     description |-> DictGet(data, "description", JNull),
     amount      |-> PyFloat(DictGet(data, "amount", JNull)).val,
     category    |-> DictGet(data, "category", JNull),
     datetime    |-> DateTime(DictGet(data, "date", JNull), now),
     notes       |-> DictGet(data, "notes", JStr("")),
     status      |-> DictGet(data, "status", JNull),
     tx_hash     |-> DictGet(data, "transactionHash", JNull)]

\* the parameter tuple of the INSERT, with the id the store assigns
NewRow(data, id, now) ==
    [id          |-> id,
     description |-> DictGet(data, "description", JNull),
     amount      |-> PyFloat(DictGet(data, "amount", JNull)).val,
     category    |-> DictGet(data, "category", JNull),
     datetime    |-> DateTime(DictGet(data, "date", JNull), now),
     notes       |-> DictGet(data, "notes", JStr("")),
     status      |-> DictGet(data, "status", JStr("Original")),
     tx_hash     |-> DictGet(data, "transactionHash", JNull)]

---------------------------------------------------------------------------
(* The store *)

\* REPLACE INTO keyed on tx_hash: the row takes the place of its namesakes
ReplaceInto(tbl, row) == {x \in tbl : x.tx_hash # row.tx_hash} \cup {row}

\* INSERT INTO transactions ...: the committed table gains the row
InsertInto(tbl, row) == tbl \cup {row}

\* order of the dates the payloads use, as the store compares them
DateRank(d) == CASE d = "2024-01-01" -> 1 [] d = "2024-01-02" -> 2 [] OTHER -> 0

\* a >= b on the datetime column
DtGeq(a, b) ==
    \/ DateRank(a.date) > DateRank(b.date)
    \/ DateRank(a.date) = DateRank(b.date) /\ a.time >= b.time

Listings(rows) ==
    {s \in [1..Cardinality(rows) -> rows] :
        \A i, j \in 1..Cardinality(rows) : i # j => s[i] # s[j]}

\* ORDER BY datetime ASC
OrderByDatetimeAsc(rows) ==
    {s \in Listings(rows) :
        \A i \in 1..(Len(s) - 1) : DtGeq(s[i + 1].datetime, s[i].datetime)}

\* SELECT * FROM transactions ORDER BY datetime DESC: the result sets the
\* store may return (rows of equal datetime come in any order)
OrderByDatetimeDesc(rows) ==
    {s \in Listings(rows) :
        \A i \in 1..(Len(s) - 1) : DtGeq(s[i].datetime, s[i + 1].datetime)}

---------------------------------------------------------------------------
(* Responses *)

Response(status, message, id, records, escaped) ==
    [status |-> status, message |-> message, id |-> id, records |-> records,
     escaped |-> escaped]

NoResp == Response(0, "", 0, <<>>, FALSE)
MissingFields == Response(400, "Missing required fields", 0, <<>>, FALSE)
InvalidAmount == Response(400, "Invalid amount format", 0, <<>>, FALSE)
Added(id) == Response(201, "Record added successfully!", id, <<>>, FALSE)
\* the except clause of add_record
InternalError == Response(500, "Internal server error", 0, <<>>, FALSE)
Listed(records) == Response(200, "", 0, records, FALSE)
\* an exception that leaves the view function: the framework answers
Unhandled == Response(500, "", 0, <<>>, TRUE)
\* the URL has no rule for the method: the framework answers
MethodNotAllowed == Response(405, "", 0, <<>>, TRUE)

\* the id of the latest insert on any connection
LatestInsertId(r) == nextId - 1

\* the id add_record answers with
LastRowId(r) == lastrowid[r]

\* what the table holds when the module is loaded: nothing, or the row an
\* earlier run of the program inserted
StoredBefore == {{}, {NewRow(FullPayload, 1, 0)}}

---------------------------------------------------------------------------
(* Module top level *)

Loaded(as) ==
    /\ name = as
    /\ phase = "start"
    /\ routes = {}
    /\ clock = 0
    /\ table \in StoredBefore
    /\ nextId = Cardinality(table) + 1
    /\ pc = [r \in Reqs |-> "idle"]
    /\ method = [r \in Reqs |-> "none"]
    /\ body = [r \in Reqs |-> NoBody]
    /\ conn = [r \in Reqs |-> "none"]
    /\ pending = [r \in Reqs |-> <<>>]
    /\ lastrowid = [r \in Reqs |-> 0]
    /\ resp = [r \in Reqs |-> NoResp]

\* the module imported under its own name
Init == Loaded("index")

\* the module run as a script
InitMain == Loaded("__main__")

\* @app.route('/records', methods=['GET'])
RegisterGet ==
    /\ phase = "start"
    /\ phase' = "guard"
    /\ routes' = routes \cup {"GET"}
    /\ UNCHANGED <<name, clock, table, nextId, reqVars>>

\* if __name__ == '__main__': false when the module is imported
MainGuardSkip ==
    /\ phase = "guard"
    /\ name # "__main__"
    /\ phase' = "post_route"
    /\ UNCHANGED <<name, routes, clock, table, nextId, reqVars>>

\* app.run(debug=True): serves until the server is stopped
AppRun ==
    /\ phase = "guard"
    /\ name = "__main__"
    /\ phase' = "serving"
    /\ UNCHANGED <<name, routes, clock, table, nextId, reqVars>>

\* app.run returns once the server is stopped
AppRunReturns ==
    /\ phase = "serving"
    /\ name = "__main__"
    /\ \A r \in Reqs : pc[r] \in {"idle", "done"}
    /\ phase' = "post_route"
    /\ UNCHANGED <<name, routes, clock, table, nextId, reqVars>>

\* @app.route('/records', methods=['POST'])
RegisterPost ==
    /\ phase = "post_route"
    /\ phase' = "loaded"
    /\ routes' = routes \cup {"POST"}
    /\ UNCHANGED <<name, clock, table, nextId, reqVars>>

\* the WSGI host that imported the module starts serving it
HostServes ==
    /\ phase = "loaded"
    /\ name # "__main__"
    /\ phase' = "serving"
    /\ UNCHANGED <<name, routes, clock, table, nextId, reqVars>>

\* the time of day moves on
Tick ==
    /\ clock' = (clock + 1) % ClockTicks
    /\ UNCHANGED <<bootVars, table, nextId, reqVars>>

---------------------------------------------------------------------------
(* Requests *)

Finish(r, response) ==
    /\ pc' = [pc EXCEPT ![r] = "done"]
    /\ resp' = [resp EXCEPT ![r] = response]

\* the app context is torn down: the connection is closed, and what its
\* transaction had not committed is rolled back
Teardown(r, state) ==
    /\ conn' = [conn EXCEPT ![r] = state]
    /\ pending' = [pending EXCEPT ![r] = <<>>]

\* requests take the slots in the order they arrive
CanArrive(r) ==
    /\ phase = "serving"
    /\ pc[r] = "idle"
    /\ r > 1 => pc[r - 1] # "idle"

\* a POST /records while the URL has the GET rule only
PostNotAllowed(r) ==
    /\ CanArrive(r)
    /\ "POST" \notin routes
    /\ \E b \in Bodies : body' = [body EXCEPT ![r] = b]
    /\ method' = [method EXCEPT ![r] = "POST"]
    /\ Finish(r, MethodNotAllowed)
    /\ UNCHANGED <<bootVars, clock, table, nextId, conn, pending, lastrowid>>

\* lines 37-59 of a POST /records that reaches add_record: read the body,
\* extract the fields, validate, convert amount, take the connection and a
\* cursor
AddBegin(r) ==
    /\ CanArrive(r)
    /\ "POST" \in routes
    /\ method' = [method EXCEPT ![r] = "POST"]
    /\ \E b \in Bodies :
        LET data == b.data
            amount == DictGet(data, "amount", JNull)
        IN  /\ body' = [body EXCEPT ![r] = b]
            /\ \/ /\ b.kind # "object"
                  /\ Finish(r, InternalError)
                  /\ UNCHANGED conn
               \/ /\ b.kind = "object"
                  /\ ~PyAll(RequiredValues(data))
                  /\ Finish(r, MissingFields)
                  /\ UNCHANGED conn
               \/ /\ b.kind = "object"
                  /\ PyAll(RequiredValues(data))
                  /\ PyFloat(amount).kind = "ValueError"
                  /\ Finish(r, InvalidAmount)
                  /\ UNCHANGED conn
               \/ /\ b.kind = "object"
                  /\ PyAll(RequiredValues(data))
                  /\ PyFloat(amount).kind = "TypeError"
                  /\ Finish(r, InternalError)
                  /\ UNCHANGED conn
               \/ /\ b.kind = "object"
                  /\ PyAll(RequiredValues(data))
                  /\ PyFloat(amount).kind = "ok"
                  /\ \/ /\ conn' = [conn EXCEPT ![r] = "open"]
                        /\ pc' = [pc EXCEPT ![r] = "add_execute"]
                        /\ UNCHANGED resp
                     \/ /\ conn' = [conn EXCEPT ![r] = "failed"]
                        /\ Finish(r, InternalError)
    /\ UNCHANGED <<bootVars, clock, table, nextId, pending, lastrowid>>

\* lines 65-77: build the parameters (the datetime among them), then execute
AddExecute(r) ==
    /\ pc[r] = "add_execute"
    /\ LET data == body[r].data
       IN  \/ /\ ~CanConcat(DictGet(data, "date", JNull))
              /\ Finish(r, InternalError)
              /\ Teardown(r, "closed")
              /\ UNCHANGED <<nextId, lastrowid>>
           \/ /\ CanConcat(DictGet(data, "date", JNull))
              /\ Finish(r, InternalError)
              /\ Teardown(r, "failed")
              /\ UNCHANGED <<nextId, lastrowid>>
           \/ /\ CanConcat(DictGet(data, "date", JNull))
              /\ pending' = [pending EXCEPT ![r] = <<NewRow(data, nextId, clock)>>]
              /\ lastrowid' = [lastrowid EXCEPT ![r] = nextId]
              /\ nextId' = nextId + 1
              /\ pc' = [pc EXCEPT ![r] = "add_commit"]
              /\ UNCHANGED <<conn, resp>>
    /\ UNCHANGED <<bootVars, clock, table, method, body>>

\* line 78: conn.commit()
AddCommit(r) ==
    /\ pc[r] = "add_commit"
    /\ \/ /\ table' = InsertInto(table, pending[r][1])
          /\ pending' = [pending EXCEPT ![r] = <<>>]
          /\ pc' = [pc EXCEPT ![r] = "add_close"]
          /\ UNCHANGED <<conn, resp>>
       \/ /\ Finish(r, InternalError)
          /\ Teardown(r, "failed")
          /\ UNCHANGED table
    /\ UNCHANGED <<bootVars, clock, nextId, method, body, lastrowid>>

\* lines 79-81: cursor.close(), then the 201 response with cursor.lastrowid
AddFinish(r) ==
    /\ pc[r] = "add_close"
    /\ \/ /\ Finish(r, Added(LastRowId(r)))
          /\ conn' = [conn EXCEPT ![r] = "closed"]
       \/ /\ Finish(r, InternalError)
          /\ conn' = [conn EXCEPT ![r] = "failed"]
    /\ UNCHANGED <<bootVars, clock, table, nextId, method, body, pending, lastrowid>>

\* lines 19-20 of a GET /records that reaches get_records:
\* conn = mysql.connection; cursor = conn.cursor(dictionary=True)
GetBegin(r) ==
    /\ CanArrive(r)
    /\ "GET" \in routes
    /\ method' = [method EXCEPT ![r] = "GET"]
    /\ \/ /\ conn' = [conn EXCEPT ![r] = "open"]
          /\ pc' = [pc EXCEPT ![r] = "get_query"]
          /\ UNCHANGED resp
       \/ /\ conn' = [conn EXCEPT ![r] = "failed"]
          /\ Finish(r, Unhandled)
    /\ UNCHANGED <<bootVars, clock, table, nextId, body, pending, lastrowid>>

\* lines 21-23: execute the SELECT, fetchall, jsonify
GetQuery(r) ==
    /\ pc[r] = "get_query"
    /\ \/ /\ \E records \in OrderByDatetimeDesc(table) : Finish(r, Listed(records))
          /\ conn' = [conn EXCEPT ![r] = "closed"]
       \/ /\ Finish(r, Unhandled)
          /\ conn' = [conn EXCEPT ![r] = "failed"]
    /\ UNCHANGED <<bootVars, clock, table, nextId, method, body, pending, lastrowid>>

---------------------------------------------------------------------------
(* Specifications *)

Handlers ==
    \E r \in Reqs :
        \/ AddBegin(r) \/ AddExecute(r) \/ AddCommit(r) \/ AddFinish(r)
        \/ GetBegin(r) \/ GetQuery(r)

\* the module imported by a WSGI host
Next ==
    \/ RegisterGet \/ MainGuardSkip \/ RegisterPost \/ HostServes
    \/ Tick
    \/ Handlers

Spec == Init /\ [][Next]_vars

\* the module run as the main script
NextMain ==
    \/ RegisterGet \/ AppRun \/ AppRunReturns \/ RegisterPost
    \/ Tick
    \/ \E r \in Reqs : PostNotAllowed(r) \/ GetBegin(r) \/ GetQuery(r)

SpecMain == InitMain /\ [][NextMain]_vars

---------------------------------------------------------------------------
(* Vocabulary of the properties *)

PostDone(r) == method[r] = "POST" /\ pc[r] = "done" /\ body[r].kind = "object"

\* a field that is absent, null or empty
IsMissing(v) ==
    \/ v.t \in {"absent", "null"}
    \/ v.t = "str" /\ v.s = ""
    \/ v.t = "list" /\ v.n = 0

AllPresent(data) == \A k \in Required : ~IsMissing(data[k])

\* an amount that is no number: a non-numeric string, a list, a boolean
NotANumber(v) ==
    \/ v.t \in {"list", "bool"}
    \/ v.t = "str" /\ v.s # "4.50"

\* a numeric string or a JSON number
IsNumber(v) ==
    \/ v.t = "num"
    \/ v.t = "str" /\ v.s = "4.50"

NumericValue(v) ==
    CASE v.t = "num"   -> v.n
      [] v.s = "4.50"  -> 450
      [] v.t = "bool"  -> v.n * 100
      [] OTHER         -> -1

\* the stored record a payload determines (the time of day aside)
FieldsMatch(row, data) ==
    /\ row.description = data["description"]
    /\ row.category = data["category"]
    /\ row.amount = NumericValue(data["amount"])
    /\ row.tx_hash = data["transactionHash"]
    /\ row.notes = (IF data["notes"] = Absent THEN JStr("") ELSE data["notes"])
    /\ row.status = (IF data["status"] = Absent THEN JStr("Original")
                     ELSE data["status"])
    /\ row.datetime.date = data["date"].s
    /\ row.datetime.time \in 0..(ClockTicks - 1)

Range(s) == {s[i] : i \in 1..Len(s)}

\* request g answers 200 in this step
Lists(g) == pc[g] = "get_query" /\ pc'[g] = "done" /\ resp'[g].status = 200

---------------------------------------------------------------------------
(* C1 *)

C1Rejected ==
    \A r \in Reqs :
        (PostDone(r) /\ ~AllPresent(body[r].data))
            => /\ resp[r] = MissingFields
               /\ conn[r] = "none"
               /\ lastrowid[r] = 0
               /\ pending[r] = <<>>

C1NoWrite ==
    \A r \in Reqs :
        (pc[r] = "idle" /\ pc'[r] = "done" /\ resp'[r].status = 400)
            => table' = table /\ nextId' = nextId

\* C1: a POST whose description, amount, category, date or transactionHash
\* is absent, null or empty is answered 400 "Missing required fields"; no
\* connection is opened for it and the table keeps exactly its rows.
C1_MissingFieldsRejected == []C1Rejected /\ [][C1NoWrite]_vars

C1_Witness ==
    \E r \in Reqs :
        /\ PostDone(r)
        /\ body[r].data["transactionHash"] = Absent
        /\ resp[r].status = 400
        /\ table # {}

---------------------------------------------------------------------------
(* C2 *)

\* C2: a POST whose five required fields are present and whose amount is
\* no number (a non-numeric string, a list, a boolean) is answered 400
\* "Invalid amount format" before any connection is opened, and inserts
\* no row.
C2_InvalidAmountRejected ==
    \A r \in Reqs :
        (PostDone(r) /\ AllPresent(body[r].data)
                     /\ NotANumber(body[r].data["amount"]))
            => /\ resp[r] = InvalidAmount
               /\ conn[r] = "none"
               /\ lastrowid[r] = 0

---------------------------------------------------------------------------
(* C3 *)

\* C3: a POST whose five required fields are present, non-null and
\* non-empty and whose amount is a numeric string or a JSON number (0
\* included) is, unless the store fails, answered 201 with the id the store
\* assigned, and its row is in the table.
C3_ValidAccepted ==
    \A r \in Reqs :
        (PostDone(r) /\ AllPresent(body[r].data)
                     /\ IsNumber(body[r].data["amount"])
                     /\ conn[r] # "failed")
            => /\ resp[r].status = 201
               /\ resp[r].message = "Record added successfully!"
               /\ resp[r].id = lastrowid[r]
               /\ Cardinality({row \in table : row.id = resp[r].id}) = 1

---------------------------------------------------------------------------
(* C4 *)

C4Stored ==
    \A r \in Reqs :
        (PostDone(r) /\ resp[r].status = 201)
            => \E row \in table :
                /\ row.id = resp[r].id
                /\ FieldsMatch(row, body[r].data)

C4Listed ==
    \A g \in Reqs :
        Lists(g) =>
            \A r \in Reqs :
                (PostDone(r) /\ resp[r].status = 201)
                    => LET hits == {i \in 1..Len(resp'[g].records) :
                                      resp'[g].records[i].id = resp[r].id}
                       IN  /\ Cardinality(hits) = 1
                           /\ \A i \in hits :
                                FieldsMatch(resp'[g].records[i], body[r].data)

C4Stamped ==
    \A r \in Reqs :
        (pc[r] = "add_execute" /\ pc'[r] = "add_commit")
            => pending'[r][1].datetime.time = clock

---------------------------------------------------------------------------
(* C5 *)

C5Listing ==
    \A g \in Reqs :
        Lists(g) =>
            LET s == resp'[g].records
            IN  /\ Len(s) = Cardinality(table)
                /\ Range(s) = table
                /\ \A i \in 1..(Len(s) - 1) :
                    DtGeq(s[i].datetime, s[i + 1].datetime)

C5ReadOnly ==
    \A g \in Reqs :
        (method'[g] = "GET" /\ pc'[g] # pc[g]) => table' = table

---------------------------------------------------------------------------
(* C6 *)

\* C6: every error a handler meets is caught in the handler and answered
\* with a JSON error payload; no exception leaves a handler.
C6_ErrorsCaught ==
    \A r \in Reqs :
        (pc[r] = "done" /\ resp[r].status >= 400) => ~resp[r].escaped

---------------------------------------------------------------------------
(* C7 *)

\* C7: when POST /records is answered 500 "Internal server error", the
\* table holds no row of that request.
C7_FailedPostLeavesNoRow ==
    \A r \in Reqs :
        (PostDone(r) /\ resp[r] = InternalError)
            => \A row \in table : row.id # lastrowid[r]

---------------------------------------------------------------------------
(* C8 *)

C8Unique == \A a, b \in table : a.id = b.id => a = b

C8Kept == table \subseteq table'

\* C8: the rows of the table have pairwise distinct ids, and a row once
\* inserted stays in the table with its id and its field values.
C8_RowsStable == []C8Unique /\ [][C8Kept]_vars

C8_Witness ==
    /\ \E a, b \in table : a.id # b.id /\ a.tx_hash = b.tx_hash
    /\ \E r \in Reqs : PostDone(r) /\ resp[r].status = 201

---------------------------------------------------------------------------
(* C9 *)

\* C9: whenever the server is serving, both GET /records and POST /records
\* are registered.
C9_PostServed == phase = "serving" => {"GET", "POST"} \subseteq routes

---------------------------------------------------------------------------
(* C10 *)

===========================================================================
